---- MODULE Spec2Model ----
(***************************************************************************)
(* Model of convert-gptneox-hf-to-gguf.py: the BpeVocab class and the      *)
(* module-level conversion script that drives a gguf.GGUFWriter.           *)
(*                                                                         *)
(* Representation choices                                                  *)
(*  - a Python str is a sequence of one-character strings; bytes is a      *)
(*    sequence of byte values (Encode is UTF-8 on the ASCII subset used).  *)
(*  - a Python dict is a sequence of [text, id] records with distinct      *)
(*    texts, in insertion order (dicts iterate in insertion order).        *)
(*  - a dotted tensor name is the sequence of its dot-separated parts.     *)
(*  - floats 0.0 and -1000.0 are the integers 0 and -1000.                 *)
(*  - gguf_writer is the sequence of calls made on the GGUFWriter, the     *)
(*    constructor call first; <<>> means it has not been constructed.      *)
(***************************************************************************)
EXTENDS Integers, Sequences, FiniteSets, TLC

\* ------------------------------------------------------------------ bounds
\* largest base vocabulary (entries of tokenizer.json model.vocab)
MaxBase == 2
\* largest added_tokens.json mapping
MaxAdded == 2
\* longest embedded added_tokens listing in tokenizer.json
MaxListed == 2
\* most checkpoint shards (pytorch_model-* files)
MaxParts == 2
\* most tensors in the whole checkpoint
MaxTensors == 2

\* ------------------------------------------------------------ token texts
TokA == <<"a">>
TokUnk == <<"<", "u", "n", "k", ">">>
TokPad == <<"<", "p", "a", "d", ">">>

Texts == {TokA, TokUnk, TokPad}

\* ids an added-token descriptor may assign: below, inside and beyond the accepted
\* range of every vocabulary but the largest
Ids == 0 .. (MaxBase + MaxAdded - 1)

\* ord() of the characters used
Ord(c) ==
    CASE c = "<" -> 60
      [] c = ">" -> 62
      [] c = "0" -> 48
      [] c = "a" -> 97
      [] c = "d" -> 100
      [] c = "k" -> 107
      [] c = "n" -> 110
      [] c = "p" -> 112
      [] c = "u" -> 117
      [] c = "x" -> 120

\* str.encode("utf-8") on ASCII text: one byte per character
Encode(text) == [i \in 1 .. Len(text) |-> Ord(text[i])]

\* bytes.startswith / bytes.endswith
StartsWith(s, p) == Len(s) >= Len(p) /\ SubSeq(s, 1, Len(p)) = p

EndsWith(s, p) == Len(s) >= Len(p) /\ SubSeq(s, Len(s) - Len(p) + 1, Len(s)) = p

\* ------------------------------------------------------- dicts and sorting
DictKeys(d) == {d[i].text : i \in 1 .. Len(d)}

DictValues(d) == [i \in 1 .. Len(d) |-> d[i].id]

DistinctKeys(d) == \A i, j \in 1 .. Len(d) : d[i].text = d[j].text => i = j

\* d[k] = v: an existing key keeps its position, a new key goes last
DictSet(d, k, v) ==
    IF k \in DictKeys(d)
    THEN [i \in 1 .. Len(d) |-> IF d[i].text = k THEN [text |-> k, id |-> v] ELSE d[i]]
    ELSE Append(d, [text |-> k, id |-> v])

\* dict(pairs)
RECURSIVE DictFromPairs(_)
DictFromPairs(pairs) ==
    IF pairs = <<>> THEN <<>>
    ELSE LET n == Len(pairs)
         IN DictSet(DictFromPairs(SubSeq(pairs, 1, n - 1)), pairs[n].text, pairs[n].id)

\* number of elements of the int sequence s that are <= x
CountLeq(s, x) == Cardinality({i \in 1 .. Len(s) : s[i] <= x})

\* sorted(ints), by insertion
RECURSIVE Sorted(_)
Sorted(s) ==
    IF s = <<>> THEN <<>>
    ELSE LET n == Len(s)
             r == Sorted(SubSeq(s, 1, n - 1))
             pos == CountLeq(r, s[n])
         IN SubSeq(r, 1, pos) \o <<s[n]>> \o SubSeq(r, pos + 1, Len(r))

\* sorted(items, key=lambda text_idx: text_idx[1]): stable, by insertion
RECURSIVE SortedItems(_)
SortedItems(d) ==
    IF d = <<>> THEN <<>>
    ELSE LET n == Len(d)
             r == SortedItems(SubSeq(d, 1, n - 1))
             pos == CountLeq(DictValues(r), d[n].id)
         IN SubSeq(r, 1, pos) \o <<d[n]>> \o SubSeq(r, pos + 1, Len(r))

\* list(range(a, b))
RangeList(a, b) == [i \in 1 .. (IF b > a THEN b - a ELSE 0) |-> a + i - 1]

\* ------------------------------------------------------ descriptor inputs
\* tokenizer.json model.vocab: text -> id in file order; ids are 0..n-1 in any order
BaseVocabs(maxN) ==
    {s \in UNION {[1 .. n -> [text : Texts, id : 0 .. (n - 1)]] : n \in 0 .. maxN} :
        /\ DistinctKeys(s)
        /\ \A i, j \in 1 .. Len(s) : s[i].id = s[j].id => i = j}

\* added_tokens.json: text -> id
AddedDicts(maxK) ==
    {s \in UNION {[1 .. n -> [text : Texts, id : Ids]] : n \in 0 .. maxK} : DistinctKeys(s)}

\* tokenizer.json added_tokens: a list of {content, id} items, no content listed twice
Listings(maxL) ==
    {s \in UNION {[1 .. n -> [text : Texts, id : Ids]] : n \in 0 .. maxL} : DistinctKeys(s)}

\* ------------------------------------------------------------------- state
VARIABLES
    pc,                 \* position of the script / of the BpeVocab client
    args,               \* argparse namespace: vocab_only, ftype
    hparams,            \* config.json: architectures[0]
    num_parts,          \* count_model_parts(dir_model)
    gguf_writer,        \* calls made on the GGUFWriter, in order
    vocab,              \* the BpeVocab object (self.*)
    fname_added_tokens, \* <<>> for None, else <<content of added_tokens.json>>
    embedded,           \* <<>> if tokenizer.json is no file, else <<its added_tokens list>>
    added_tokens,       \* the local added_tokens dict of BpeVocab.__init__
    raised,             \* <<>> or <<the exception raised by BpeVocab.__init__>>
    tokens, scores, toktypes,
    part_names,         \* the part_names iterator: names not yet yielded
    loading,            \* <<>> or <<the part torch.load is reading>>
    model_part,         \* <<>> or <<the part bound to model_part>>
    keys_left,          \* keys of model_part not yet iterated
    name, native, data, old_dtype, new_name, n_dims, data_dtype,
    loads,              \* parts passed to torch.load, in order
    seen,               \* native names iterated so far, in order
    queried             \* names passed to tensor_map.get_name, in order

vars == <<pc, args, hparams, num_parts, gguf_writer, vocab, fname_added_tokens,
          embedded, added_tokens, raised, tokens, scores, toktypes, part_names,
          loading, model_part, keys_left, name, native, data, old_dtype, new_name,
          n_dims, data_dtype, loads, seen, queried>>

vocab_vars == <<vocab, fname_added_tokens, embedded, added_tokens, raised>>

token_vars == <<tokens, scores, toktypes>>

shard_vars == <<part_names, loading, model_part, keys_left, loads>>

shard_vars_but_keys == <<part_names, loading, model_part, loads>>

tensor_vars == <<name, native, data, old_dtype, new_name, n_dims, data_dtype, seen,
                 queried>>

\* an unbound Python name of each kind
NoVocab == [bpe_tokenizer |-> <<>>, added_tokens_list |-> <<>>,
            vocab_size_base |-> 0, vocab_size |-> 0]

NoTensor == [dtype |-> "unbound", shape |-> <<>>]

\* ---------------------------------------------------------------- BpeVocab
\* the fallback without its filter on the base vocabulary
LoadAddedTokensUnfiltered(bpe_tokenizer, file, listing) ==
    IF file # <<>>
    THEN file[1]
    ELSE IF listing = <<>> THEN <<>> ELSE DictFromPairs(listing[1])

\* the added_tokens dict chosen by __init__
LoadAddedTokens(bpe_tokenizer, file, listing) ==
    IF file # <<>>
    THEN file[1]
    ELSE IF listing = <<>>
         THEN <<>>
         ELSE DictFromPairs(
                  SelectSeq(listing[1], LAMBDA item : item.text \notin DictKeys(bpe_tokenizer)))

ExpectedIds(vocab_size, added) == RangeList(vocab_size, vocab_size + Len(added))

\* the ids as listed, not sorted
ActualIdsUnsorted(added) == DictValues(added)

ActualIds(added) == Sorted(DictValues(added))

\* the exception of line 50: count, range start, range end, actual ids
VocabError(vocab_size, actual_ids) ==
    [count |-> Len(actual_ids), lo |-> vocab_size,
     hi |-> vocab_size + Len(actual_ids) - 1, got |-> actual_ids]

\* the texts in the order of the descriptor, not of their ids
AddedTokensListUnsorted(added) == [i \in 1 .. Len(added) |-> added[i].text]

AddedTokensList(added) ==
    LET items == SortedItems(added)
    IN [i \in 1 .. Len(items) |-> items[i].text]

\* BpeVocab.__init__ on the descriptors found on disk
BpeVocabInit(Bases, Files, Lists, IsFile) ==
    /\ pc = "BpeVocab"
    /\ \E base \in Bases, has_file \in BOOLEAN, is_file \in IsFile :
       \E file \in (IF has_file THEN {<<f>> : f \in Files} ELSE {<<>>}),
          listing \in (IF is_file /\ ~has_file THEN {<<l>> : l \in Lists} ELSE {<<>>}) :
            LET added == LoadAddedTokens(base, file, listing)
                vocab_size == Len(base)
                expected_ids == ExpectedIds(vocab_size, added)
                actual_ids == ActualIds(added)
            IN /\ fname_added_tokens' = file
               /\ embedded' = listing
               /\ added_tokens' = added
               /\ IF expected_ids # actual_ids
                  THEN /\ raised' = <<VocabError(vocab_size, actual_ids)>>
                       /\ vocab' = [NoVocab EXCEPT !.bpe_tokenizer = base]
                       /\ pc' = "raised"
                  ELSE /\ raised' = <<>>
                       /\ vocab' = [bpe_tokenizer |-> base,
                                    added_tokens_list |-> AddedTokensList(added),
                                    vocab_size_base |-> vocab_size,
                                    vocab_size |-> vocab_size + Len(AddedTokensList(added))]
                       /\ pc' = "vocab_built"
    /\ UNCHANGED <<args, hparams, num_parts, gguf_writer, token_vars, shard_vars, tensor_vars>>

\* the token type chosen for position i of the base vocabulary
TokType(i, text) ==
    IF i <= 258 /\ StartsWith(text, Encode(<<"<">>)) /\ EndsWith(text, Encode(<<">">>))
    THEN IF i = 0 /\ text = Encode(TokUnk) THEN "UNKNOWN"
         ELSE IF i = 1 \/ i = 2 THEN "CONTROL"
         ELSE IF i >= 3 /\ StartsWith(text, Encode(<<"<", "0", "x">>)) THEN "BYTE"
         ELSE "NORMAL"
    ELSE "NORMAL"

\* BpeVocab.bpe_tokens: one (text, score, toktype) per entry, in iteration order
bpe_tokens(self) ==
    [p \in 1 .. Len(self.bpe_tokenizer) |->
        LET text == Encode(self.bpe_tokenizer[p].text)
        IN <<text, 0, TokType(p - 1, text)>>]

\* BpeVocab.added_tokens
added_tokens_of(self) ==
    [p \in 1 .. Len(self.added_tokens_list) |->
        <<Encode(self.added_tokens_list[p]), -1000, "USER_DEFINED">>]

\* BpeVocab.all_tokens
all_tokens(self) == bpe_tokens(self) \o added_tokens_of(self)

\* the loop that collects tokens, scores and toktypes
CollectTokens ==
    /\ pc = "vocab_built"
    /\ LET all == all_tokens(vocab)
       IN /\ tokens' = [i \in 1 .. Len(all) |-> all[i][1]]
          /\ scores' = [i \in 1 .. Len(all) |-> all[i][2]]
          /\ toktypes' = [i \in 1 .. Len(all) |-> all[i][3]]
    /\ pc' = "emit_vocab"
    /\ UNCHANGED <<args, hparams, num_parts, gguf_writer, vocab_vars, shard_vars, tensor_vars>>

\* -------------------------------------------------------------- the script
Architectures == {"GPTNeoXForCausalLM", "LlamaForCausalLM"}

\* no architecture is turned away
AnyArchitecture(arch) == TRUE

SupportedArchitecture(arch) == arch = "GPTNeoXForCausalLM"

Call(fn, a) == [call |-> fn, args |-> a]

\* parse_args and the directory test
ValidateInputDirectory ==
    /\ pc = "start"
    /\ \E is_dir \in BOOLEAN : pc' = IF is_dir THEN "load_config" ELSE "exit_1"
    /\ UNCHANGED <<args, hparams, num_parts, gguf_writer, vocab_vars, token_vars,
                   shard_vars, tensor_vars>>

\* config.json is read and the architecture tested
CheckArchitecture ==
    /\ pc = "load_config"
    /\ \E arch \in Architectures :
        /\ hparams' = [architectures |-> <<arch>>]
        /\ pc' = IF SupportedArchitecture(arch) THEN "count_parts" ELSE "exit_0"
    /\ UNCHANGED <<args, num_parts, gguf_writer, vocab_vars, token_vars, shard_vars,
                   tensor_vars>>

\* count_model_parts: the number of files named pytorch_model-*
count_model_parts ==
    /\ pc = "count_parts"
    /\ \E n \in 0 .. MaxParts : num_parts' = n
    /\ pc' = "metadata"
    /\ UNCHANGED <<args, hparams, gguf_writer, vocab_vars, token_vars, shard_vars,
                   tensor_vars>>

MetadataCalls ==
    << Call("add_name", <<>>), Call("add_context_length", <<>>),
       Call("add_embedding_length", <<>>), Call("add_block_count", <<>>),
       Call("add_feed_forward_length", <<>>), Call("add_rope_dimension_count", <<>>),
       Call("add_head_count", <<>>), Call("add_parallel_residual", <<>>),
       Call("add_layer_norm_eps", <<>>) >>

\* the writer is constructed and the hyperparameters are added
EmitMetadata ==
    /\ pc = "metadata"
    /\ gguf_writer' = <<Call("GGUFWriter", <<"gptneox">>)>> \o MetadataCalls
    /\ pc' = "tokenizer"
    /\ UNCHANGED <<args, hparams, num_parts, vocab_vars, token_vars, shard_vars, tensor_vars>>

\* tokenizer.json must exist; the tokenizer model is added
CheckTokenizerFile ==
    /\ pc = "tokenizer"
    /\ \E is_file \in BOOLEAN :
        IF is_file
        THEN /\ gguf_writer' = Append(gguf_writer, Call("add_tokenizer_model", <<"gpt2">>))
             /\ pc' = "BpeVocab"
        ELSE /\ pc' = "exit_1"
             /\ UNCHANGED gguf_writer
    /\ UNCHANGED <<args, hparams, num_parts, vocab_vars, token_vars, shard_vars, tensor_vars>>

\* the scores are added before the token list
EmitVocabularyScoresFirst ==
    /\ pc = "emit_vocab"
    /\ gguf_writer' = gguf_writer \o << Call("add_token_scores", scores),
                                       Call("add_token_list", tokens),
                                       Call("add_token_types", toktypes) >>
    /\ pc' = "special_vocab"
    /\ UNCHANGED <<args, hparams, num_parts, vocab_vars, token_vars, shard_vars, tensor_vars>>

\* add_token_list, add_token_scores, add_token_types
EmitVocabulary ==
    /\ pc = "emit_vocab"
    /\ gguf_writer' = gguf_writer \o << Call("add_token_list", tokens),
                                       Call("add_token_scores", scores),
                                       Call("add_token_types", toktypes) >>
    /\ pc' = "special_vocab"
    /\ UNCHANGED <<args, hparams, num_parts, vocab_vars, token_vars, shard_vars, tensor_vars>>

\* SpecialVocab(...).add_to_gguf(gguf_writer)
EmitSpecialVocabulary ==
    /\ pc = "special_vocab"
    /\ gguf_writer' = Append(gguf_writer, Call("special_vocab.add_to_gguf", <<>>))
    /\ pc' = "part_names"
    /\ UNCHANGED <<args, hparams, num_parts, vocab_vars, token_vars, shard_vars, tensor_vars>>

\* "pytorch_model.bin"
MonolithicName == <<"pytorch_model.bin">>

\* f"pytorch_model-{n:05}-of-{num_parts:05}.bin"
PartName(n, of) == <<"pytorch_model", n, of>>

PartNames(n_parts) ==
    IF n_parts = 0
    THEN <<MonolithicName>>
    ELSE [i \in 1 .. n_parts |-> PartName(i, n_parts)]

EnumerateShards ==
    /\ pc = "part_names"
    /\ part_names' = PartNames(num_parts)
    /\ pc' = "loop"
    /\ UNCHANGED <<args, hparams, num_parts, gguf_writer, vocab_vars, token_vars,
                   loading, model_part, keys_left, loads, tensor_vars>>

\* ----------------------------------------------------------------- tensors
NameEmbed == <<"gpt_neox", "embed_in", "weight">>
NameDenseBias == <<"gpt_neox", "layers", "0", "attention", "dense", "bias">>
NameAttnBias == <<"gpt_neox", "layers", "0", "attention", "bias">>
NameMaskedBias == <<"gpt_neox", "layers", "0", "attention", "masked_bias">>
NameInvFreq == <<"gpt_neox", "layers", "0", "attention", "rotary_emb", "inv_freq">>
NameAdapter == <<"gpt_neox", "adapter", "weight">>

NativeNames == {NameEmbed, NameDenseBias, NameAttnBias, NameMaskedBias, NameInvFreq,
                NameAdapter}

Dtypes == {"float16", "float32", "bfloat16"}

\* stored shapes: ranks 0 to 3 once squeezed, with and without dimensions of size 1
Shapes == {<<>>, <<2>>, <<1, 2>>, <<2, 2>>, <<2, 1, 2>>, <<2, 2, 2>>}

\* every stored tensor: model_part[name]
AllTensors == [dtype : Dtypes, shape : Shapes]

\* the tensors of the checkpoint the script is run on: a float32 matrix and a
\* float16 vector
RunTensors == {[dtype |-> "float32", shape |-> <<2, 2>>],
               [dtype |-> "float16", shape |-> <<1, 2>>]}

\* name.endswith("." + ".".join(suffix))
EndsWithSuffix(nm, suffix) == Len(nm) > Len(suffix) /\ EndsWith(nm, suffix)

\* every name ending in ".bias" is skipped
IsDroppedAnyBias(nm) ==
    \/ EndsWithSuffix(nm, <<"attention", "masked_bias">>)
    \/ EndsWithSuffix(nm, <<"bias">>)
    \/ EndsWithSuffix(nm, <<"attention", "rotary_emb", "inv_freq">>)

\* the three suffixes that are skipped
IsDropped(nm) ==
    \/ EndsWithSuffix(nm, <<"attention", "masked_bias">>)
    \/ EndsWithSuffix(nm, <<"attention", "bias">>)
    \/ EndsWithSuffix(nm, <<"attention", "rotary_emb", "inv_freq">>)

\* data.to(torch.float32) unless float16 or float32
NormalizeDtype(dtype) == IF dtype # "float16" /\ dtype # "float32" THEN "float32" ELSE dtype

\* data.squeeze(): the dimensions of size 1 are removed
Squeeze(shape) == SelectSeq(shape, LAMBDA d : d # 1)

\* the tensor name map of the architecture, for block_count = 1
TensorMap(stem) ==
    CASE stem = <<"gpt_neox", "embed_in">> -> <<"token_embd">>
      [] stem = <<"gpt_neox", "layers", "0", "attention", "dense">> ->
             <<"blk", "0", "attn_output">>
      [] OTHER -> <<>>

\* None
NotFound == <<>>

TrySuffixes == << <<"weight">>, <<"bias">> >>

\* tensor_map.get_name(name, try_suffixes = (".weight", ".bias"))
GetName(nm) ==
    IF TensorMap(nm) # <<>>
    THEN TensorMap(nm)
    ELSE LET hits == SelectSeq(TrySuffixes, LAMBDA suf :
                         /\ EndsWithSuffix(nm, suf)
                         /\ TensorMap(SubSeq(nm, 1, Len(nm) - Len(suf))) # <<>>)
         IN IF hits = <<>>
            THEN NotFound
            ELSE TensorMap(SubSeq(nm, 1, Len(nm) - Len(hits[1]))) \o hits[1]

\* the downcast without its test of the rank
ConvertDtypeAnyRank(ftype, dtype, dims, nm) ==
    LET d1 == IF ftype = 0 /\ dtype = "float16" THEN "float32" ELSE dtype
        d2 == IF ftype = 1 /\ dtype = "float16" /\ dims = 1 THEN "float32" ELSE d1
        d3 == IF ftype = 1 /\ dtype = "float32" /\ EndsWithSuffix(nm, <<"weight">>)
              THEN "float16" ELSE d2
    IN d3

\* the three astype conversions, each testing the dtype taken before them
ConvertDtype(ftype, dtype, dims, nm) ==
    LET d1 == IF ftype = 0 /\ dtype = "float16" THEN "float32" ELSE dtype
        d2 == IF ftype = 1 /\ dtype = "float16" /\ dims = 1 THEN "float32" ELSE d1
        d3 == IF ftype = 1 /\ dtype = "float32" /\ EndsWithSuffix(nm, <<"weight">>) /\ dims = 2
              THEN "float16" ELSE d2
    IN d3

\* the loop never breaks
SkipsNothing(a) == FALSE

\* "if args.vocab_only: break"
SkipsShards(a) == a.vocab_only

\* "if not args.vocab_only" before write_tensors_to_file
WritesTensors(a) == ~a.vocab_only

\* one iteration of "for part_name in part_names", up to the call of torch.load
NextPart ==
    /\ pc = "loop"
    /\ keys_left = 0
    /\ IF part_names = <<>>
       THEN /\ pc' = "finalize"
            /\ UNCHANGED <<part_names, loading, loads>>
       ELSE /\ part_names' = Tail(part_names)
            /\ IF SkipsShards(args)
               THEN /\ pc' = "finalize"
                    /\ UNCHANGED <<loading, loads>>
               ELSE /\ loading' = <<Head(part_names)>>
                    /\ loads' = Append(loads, Head(part_names))
                    /\ pc' = "torch_load"
    /\ UNCHANGED <<args, hparams, num_parts, gguf_writer, vocab_vars, token_vars,
                   model_part, keys_left, tensor_vars>>

\* torch.load returns and its result is bound to model_part
TorchLoad ==
    /\ pc = "torch_load"
    /\ model_part' = loading
    /\ loading' = <<>>
    /\ \E k \in 0 .. (MaxTensors - Len(seen)) : keys_left' = k
    /\ pc' = "loop"
    /\ UNCHANGED <<args, hparams, num_parts, gguf_writer, vocab_vars, token_vars,
                   part_names, loads, tensor_vars>>

\* one iteration of "for name in model_part.keys()"
ProcessTensor(Stored) ==
    /\ pc = "loop"
    /\ keys_left > 0
    /\ \E nm \in NativeNames, t \in Stored :
        LET dt == t.dtype
            sh == t.shape
            squeezed == [dtype |-> NormalizeDtype(dt), shape |-> Squeeze(sh)]
            mapped == GetName(nm)
            dims == Len(squeezed.shape)
            out == [squeezed EXCEPT !.dtype = ConvertDtype(args.ftype, squeezed.dtype, dims, nm)]
        IN /\ name' = nm
           /\ native' = t
           /\ seen' = Append(seen, nm)
           /\ IF IsDropped(nm)
              THEN /\ data' = t
                   /\ keys_left' = keys_left - 1
                   /\ UNCHANGED <<pc, gguf_writer, old_dtype, new_name, n_dims, data_dtype,
                                  queried>>
              ELSE /\ old_dtype' = dt
                   /\ queried' = Append(queried, nm)
                   /\ new_name' = mapped
                   /\ IF mapped = NotFound
                      THEN /\ data' = squeezed
                           /\ pc' = "exit_0"
                           /\ UNCHANGED <<gguf_writer, keys_left, n_dims, data_dtype>>
                      ELSE /\ n_dims' = dims
                           /\ data_dtype' = squeezed.dtype
                           /\ data' = out
                           /\ gguf_writer' = Append(gguf_writer,
                                                    Call("add_tensor", <<mapped, out.dtype>>))
                           /\ keys_left' = keys_left - 1
                           /\ UNCHANGED pc
    /\ UNCHANGED <<args, hparams, num_parts, vocab_vars, token_vars, shard_vars_but_keys>>

\* header, metadata, tensors unless vocab-only, close
Finalize ==
    /\ pc = "finalize"
    /\ gguf_writer' = gguf_writer
                      \o << Call("write_header_to_file", <<>>),
                            Call("write_kv_data_to_file", <<>>) >>
                      \o (IF WritesTensors(args)
                          THEN <<Call("write_tensors_to_file", <<>>)>> ELSE <<>>)
                      \o <<Call("close", <<>>)>>
    /\ pc' = "done"
    /\ UNCHANGED <<args, hparams, num_parts, vocab_vars, token_vars, shard_vars, tensor_vars>>

\* ---------------------------------------------------------- specifications
Unbound ==
    /\ hparams = [architectures |-> <<>>]
    /\ num_parts = 0
    /\ gguf_writer = <<>>
    /\ vocab = NoVocab
    /\ fname_added_tokens = <<>>
    /\ embedded = <<>>
    /\ added_tokens = <<>>
    /\ raised = <<>>
    /\ tokens = <<>> /\ scores = <<>> /\ toktypes = <<>>
    /\ part_names = <<>>
    /\ loading = <<>>
    /\ model_part = <<>>
    /\ keys_left = 0
    /\ name = <<>>
    /\ native = NoTensor
    /\ data = NoTensor
    /\ old_dtype = "unbound"
    /\ new_name = <<>>
    /\ n_dims = 0
    /\ data_dtype = "unbound"
    /\ loads = <<>>
    /\ seen = <<>>
    /\ queried = <<>>

Arguments == [vocab_only : BOOLEAN, ftype : {0, 1}]

\* the script is started with parsed arguments
Init ==
    /\ pc = "start"
    /\ args \in Arguments
    /\ Unbound

\* the descriptors of the model directory the script is run on: a base vocabulary
\* of one token, an added_tokens.json that continues it or leaves a gap, and an
\* embedded listing that is empty or repeats the base token
RunBases == {<<[text |-> TokUnk, id |-> 0]>>}

RunFiles == {<<[text |-> TokPad, id |-> 1]>>, <<[text |-> TokPad, id |-> 2]>>}

RunLists == {<<>>, <<[text |-> TokUnk, id |-> 0]>>}

\* vocab = BpeVocab(dir_model / 'tokenizer.json', added_tokens_path or None)
BuildVocab == BpeVocabInit(RunBases, RunFiles, RunLists, {TRUE})

ConvertTensor == ProcessTensor(RunTensors)

Next ==
    \/ ValidateInputDirectory
    \/ CheckArchitecture
    \/ count_model_parts
    \/ EmitMetadata
    \/ CheckTokenizerFile
    \/ BuildVocab
    \/ CollectTokens
    \/ EmitVocabulary
    \/ EmitSpecialVocabulary
    \/ EnumerateShards
    \/ NextPart
    \/ TorchLoad
    \/ ConvertTensor
    \/ Finalize

Spec == Init /\ [][Next]_vars

\* a client constructs a BpeVocab on any descriptors and collects all_tokens()
InitVocab ==
    /\ pc = "BpeVocab"
    /\ args = [vocab_only |-> TRUE, ftype |-> 1]
    /\ Unbound

Construct ==
    BpeVocabInit(BaseVocabs(MaxBase), AddedDicts(MaxAdded), Listings(MaxListed), BOOLEAN)

NextVocab ==
    \/ Construct
    \/ CollectTokens

SpecVocab == InitVocab /\ [][NextVocab]_vars

\* the tensor loop on a monolithic checkpoint holding any tensors: the state
\* after torch.load of a run on the base vocabulary of RunBases without added tokens
RunVocab == [bpe_tokenizer |-> CHOOSE b \in RunBases : TRUE, added_tokens_list |-> <<>>,
             vocab_size_base |-> 1, vocab_size |-> 1]

InitTensors ==
    /\ pc = "loop"
    /\ args \in [vocab_only : {FALSE}, ftype : {0, 1}]
    /\ hparams = [architectures |-> <<"GPTNeoXForCausalLM">>]
    /\ num_parts = 0
    /\ vocab = RunVocab
    /\ fname_added_tokens = <<>>
    /\ embedded = <<<<>>>>
    /\ added_tokens = <<>>
    /\ raised = <<>>
    /\ tokens = [i \in 1 .. 1 |-> all_tokens(RunVocab)[i][1]]
    /\ scores = [i \in 1 .. 1 |-> all_tokens(RunVocab)[i][2]]
    /\ toktypes = [i \in 1 .. 1 |-> all_tokens(RunVocab)[i][3]]
    /\ gguf_writer = <<Call("GGUFWriter", <<"gptneox">>)>> \o MetadataCalls
                     \o << Call("add_tokenizer_model", <<"gpt2">>),
                           Call("add_token_list", tokens),
                           Call("add_token_scores", scores),
                           Call("add_token_types", toktypes),
                           Call("special_vocab.add_to_gguf", <<>>) >>
    /\ part_names = <<>>
    /\ loading = <<>>
    /\ model_part = <<MonolithicName>>
    /\ loads = <<MonolithicName>>
    /\ keys_left \in 1 .. MaxTensors
    /\ name = <<>>
    /\ native = NoTensor
    /\ data = NoTensor
    /\ old_dtype = "unbound"
    /\ new_name = <<>>
    /\ n_dims = 0
    /\ data_dtype = "unbound"
    /\ seen = <<>>
    /\ queried = <<>>

ConvertAnyTensor == ProcessTensor(AllTensors)

NextTensors ==
    \/ ConvertAnyTensor
    \/ NextPart
    \/ Finalize

SpecTensors == InitTensors /\ [][NextTensors]_vars

\* ================================================================== claims
\* the base vocabulary handed to the constructor, its size and the added mapping
BaseSize == Len(vocab.bpe_tokenizer)

AddedCount == Len(added_tokens)

Constructed == pc \in {"vocab_built", "raised", "emit_vocab"}

\* the k entries of d carry exactly the ids n, n+1, ..., n+k-1
ExactRange(d, n) == \A j \in 0 .. (Len(d) - 1) : \E i \in 1 .. Len(d) : d[i].id = n + j

Ascending(s) == \A i \in 1 .. (Len(s) - 1) : s[i] <= s[i + 1]

Occurrences(s, v) == Cardinality({i \in 1 .. Len(s) : s[i] = v})

\* C1: constructing the vocabulary fails exactly when the added-token ids are not
\* N, N+1, ..., N+k-1 (a gap, a duplicate id or an id below N), and the error names
\* the range N .. N+k-1 and the added ids in ascending order.
C1_Contiguity ==
    Constructed =>
        /\ (pc = "raised") <=> ~ExactRange(added_tokens, BaseSize)
        /\ (pc = "raised") <=> (raised # <<>>)
        /\ raised # <<>> =>
            /\ raised[1].count = AddedCount
            /\ raised[1].lo = BaseSize
            /\ raised[1].hi = BaseSize + AddedCount - 1
            /\ Ascending(raised[1].got)
            /\ Len(raised[1].got) = AddedCount
            /\ \A v \in Ids :
                 Occurrences(raised[1].got, v) = Occurrences(DictValues(added_tokens), v)

\* two added tokens were given that cover the range in descending file order, or
\* that share one id
C1_Witness ==
    /\ Constructed
    /\ AddedCount = 2
    /\ BaseSize = 1
    /\ \/ pc = "raised" /\ added_tokens[1].id = 1 /\ added_tokens[2].id = 1
       \/ pc = "vocab_built" /\ added_tokens[1].id = 2 /\ added_tokens[2].id = 1

\* the text that the descriptors give id i: a base entry below N, an added one from N
HasId(text, i) ==
    IF i < BaseSize
    THEN \E p \in 1 .. BaseSize :
            vocab.bpe_tokenizer[p].id = i /\ vocab.bpe_tokenizer[p].text = text
    ELSE \E p \in 1 .. AddedCount :
            added_tokens[p].id = i /\ added_tokens[p].text = text

\* C2: in every vocabulary that was built, the token at position i of all_tokens()
\* is the token whose id is i, whatever the order in which the base vocabulary
\* lists its entries.
C2_OrderPreservation ==
    pc = "emit_vocab" =>
        \A i \in 0 .. (Len(tokens) - 1) :
            \E text \in Texts : HasId(text, i) /\ tokens[i + 1] = Encode(text)

\* C8: a built vocabulary has N + k tokens; the first N have score 0.0; the last k
\* have score -1000.0 and type USER_DEFINED and come in ascending order of their ids.
C8_LengthScoresTypes ==
    pc = "emit_vocab" =>
        /\ Len(tokens) = BaseSize + AddedCount
        /\ Len(scores) = BaseSize + AddedCount
        /\ Len(toktypes) = BaseSize + AddedCount
        /\ \A i \in 1 .. BaseSize : scores[i] = 0
        /\ \A j \in 1 .. AddedCount :
            /\ scores[BaseSize + j] = -1000
            /\ toktypes[BaseSize + j] = "USER_DEFINED"
            /\ \E p \in 1 .. AddedCount :
                /\ added_tokens[p].id = BaseSize + j - 1
                /\ tokens[BaseSize + j] = Encode(added_tokens[p].text)

\* a vocabulary was built from a base token and two added tokens that the
\* descriptor lists in descending order of id
C8_Witness ==
    /\ pc = "emit_vocab"
    /\ BaseSize = 1
    /\ AddedCount = 2
    /\ added_tokens[1].id > added_tokens[2].id

Collides(item) == item.text \in DictKeys(vocab.bpe_tokenizer)

Entries(d) == {d[i] : i \in 1 .. Len(d)}

\* C9: without an added-tokens file, the embedded entries whose text is in the base
\* vocabulary are removed before the contiguity check, so that they are not added
\* and the check passes or fails on the other entries alone; with an added-tokens
\* file no entry is removed and a colliding entry is checked like any other.
C9_CollisionFilter ==
    Constructed =>
        /\ (fname_added_tokens = <<>> /\ embedded # <<>>) =>
            /\ Entries(added_tokens) = {e \in Entries(embedded[1]) : ~Collides(e)}
            /\ (pc = "raised") <=>
                 ~ExactRange(SelectSeq(embedded[1], LAMBDA e : ~Collides(e)), BaseSize)
            /\ pc # "raised" =>
                 \A e \in Entries(embedded[1]) :
                    Collides(e) =>
                        \A p \in 1 .. Len(vocab.added_tokens_list) :
                            vocab.added_tokens_list[p] # e.text
        /\ fname_added_tokens # <<>> =>
            /\ added_tokens = fname_added_tokens[1]
            /\ (pc = "raised") <=> ~ExactRange(fname_added_tokens[1], BaseSize)

\* the embedded listing repeats a base token under an id below N next to a new token,
\* and the vocabulary was built
C9_Witness ==
    /\ pc = "vocab_built"
    /\ fname_added_tokens = <<>>
    /\ embedded # <<>>
    /\ \E e \in Entries(embedded[1]) : Collides(e) /\ e.id < BaseSize
    /\ AddedCount = 1


\* ------------------------------------------------------- claims on the run
Calls == [i \in 1 .. Len(gguf_writer) |-> gguf_writer[i].call]

Called(fn) == \E i \in 1 .. Len(Calls) : Calls[i] = fn

CountCalls(fn) == Cardinality({i \in 1 .. Len(Calls) : Calls[i] = fn})

\* the order of calls as the claim lists it
ClaimedOrder ==
    << "GGUFWriter", "add_context_length", "add_embedding_length", "add_block_count",
       "add_feed_forward_length", "add_rope_dimension_count", "add_head_count",
       "add_parallel_residual", "add_layer_norm_eps", "add_tokenizer_model",
       "add_token_list", "add_token_scores", "add_token_types",
       "special_vocab.add_to_gguf", "add_tensor", "write_header_to_file",
       "write_kv_data_to_file", "write_tensors_to_file", "close" >>

\* the same order with the model name as the first metadata call
AmendedOrder == <<"GGUFWriter", "add_name">> \o Tail(ClaimedOrder)

Listed(order, fn) == \E r \in 1 .. Len(order) : order[r] = fn

Rank(order, fn) == CHOOSE r \in 1 .. Len(order) : order[r] = fn

\* every call made is one of order, each call is followed by one of the same place
\* (add_tensor only) or of a later place, no place before a call made is skipped
\* (but add_tensor, and write_tensors_to_file when vocab-only), the writer is
\* constructed with the architecture name, tensors are written only when not vocab-only
FollowsOrder(order) ==
    /\ \A i \in 1 .. Len(gguf_writer) : Listed(order, gguf_writer[i].call)
    /\ \A i \in 1 .. (Len(gguf_writer) - 1) :
        LET here == Rank(order, gguf_writer[i].call)
            next == Rank(order, gguf_writer[i + 1].call)
        IN /\ here <= next
           /\ here = next => gguf_writer[i].call = "add_tensor"
    /\ \A i \in 1 .. Len(gguf_writer) :
        LET before == {gguf_writer[h].call : h \in 1 .. (i - 1)}
        IN \A r \in 1 .. (Rank(order, gguf_writer[i].call) - 1) :
               \/ order[r] = "add_tensor"
               \/ order[r] = "write_tensors_to_file" /\ args.vocab_only
               \/ order[r] \in before
    /\ gguf_writer # <<>> => gguf_writer[1] = Call("GGUFWriter", <<"gptneox">>)
    /\ Called("write_tensors_to_file") => ~args.vocab_only

\* C3 as stated: the calls on the sink are, in this order and each at most once but
\* addTensor: construction, context length .. tokenizer model, addTokenList,
\* addTokenScores, addTokenTypes, special vocabulary, addTensor*, writeHeader,
\* writeMetadata, writeTensors (not vocab-only), close.
C3_CallOrderAsStated == FollowsOrder(ClaimedOrder)

\* C3 amended: the same order, the metadata calls beginning with the model name
\* (add_name) before the context length.
C3_CallOrder == FollowsOrder(AmendedOrder)

\* a run that added two tensors has closed the writer
C3_Witness ==
    /\ pc = "done"
    /\ CountCalls("add_tensor") = 2
    /\ Called("write_tensors_to_file")

\* rank after squeezing: the dimensions of the stored shape that are not 1
RankOf(shape) == Cardinality({i \in 1 .. Len(shape) : shape[i] # 1})

\* the rule table of the dtype policy
RuleTable(target_bits, native_dtype, rank, is_weight) ==
    LET normalized == IF native_dtype \in {"float16", "float32"}
                      THEN native_dtype ELSE "float32"
    IN IF target_bits = 32 THEN "float32"
       ELSE IF normalized = "float16" /\ rank = 1 THEN "float32"
       ELSE IF normalized = "float32" /\ rank = 2 /\ is_weight THEN "float16"
       ELSE normalized

TargetBits == IF args.ftype = 0 THEN 32 ELSE 16

\* the tensor iterated last was passed to add_tensor by the last call made
LastWasAdded ==
    /\ pc \in {"loop", "finalize"}
    /\ seen # <<>>
    /\ name \notin {NameAttnBias, NameMaskedBias, NameInvFreq}
    /\ gguf_writer[Len(gguf_writer)].call = "add_tensor"

\* C4: the dtype of the buffer passed to addTensor is the one of the rule table for
\* the target precision, the native dtype, the rank after squeezing and the
\* ".weight" suffix; a rank-1 float16 tensor under a 16-bit target is never left
\* at float16 and no tensor of a rank other than 2 is downcast.
C4_DtypePolicy ==
    LastWasAdded =>
        LET passed == gguf_writer[Len(gguf_writer)].args[2]
            rank == RankOf(native.shape)
        IN /\ passed = RuleTable(TargetBits, native.dtype, rank,
                                 name[Len(name)] = "weight")
           /\ (TargetBits = 16 /\ native.dtype = "float16" /\ rank = 1) => passed # "float16"
           /\ (native.dtype # "float16" /\ passed = "float16") => rank = 2

\* under a 16-bit target a float16 tensor stored with shape (1, 2) was added as float32
C4_Witness ==
    /\ LastWasAdded
    /\ args.ftype = 1
    /\ native = [dtype |-> "float16", shape |-> <<1, 2>>]
    /\ gguf_writer[Len(gguf_writer)].args[2] = "float32"

\* the names of the checkpoint that end in a drop-list suffix
DropListed == {NameAttnBias, NameMaskedBias, NameInvFreq}

\* the names of the checkpoint so far that are not on the drop-list
Kept == SelectSeq(seen, LAMBDA nm : nm \notin DropListed)

AddedNames ==
    LET adds == SelectSeq(gguf_writer, LAMBDA c : c.call = "add_tensor")
    IN [i \in 1 .. Len(adds) |-> adds[i].args[1]]

Aborted == Kept # <<>> /\ GetName(Kept[Len(Kept)]) = NotFound

\* C5: every tensor not on the drop-list is passed to addTensor once under its
\* canonical name, in checkpoint order, or the run aborts at the first one that
\* cannot be mapped; then nothing more is processed and nothing is written; names
\* on the drop-list reach neither the mapper nor addTensor.
C5_Coverage ==
    /\ queried = Kept
    /\ \A i \in 1 .. (Len(Kept) - 1) : GetName(Kept[i]) # NotFound
    /\ AddedNames = [i \in 1 .. (Len(Kept) - (IF Aborted THEN 1 ELSE 0)) |-> GetName(Kept[i])]
    /\ Aborted =>
        /\ pc = "exit_0"
        /\ seen[Len(seen)] = Kept[Len(Kept)]
        /\ ~Called("write_header_to_file")
        /\ ~Called("write_kv_data_to_file")
        /\ ~Called("write_tensors_to_file")
        /\ ~Called("close")
    /\ pc = "done" =>
        /\ ~Aborted
        /\ Called("write_tensors_to_file") <=> ~args.vocab_only

\* the run aborted at a tensor that cannot be mapped, after it skipped or added
\* another one
C5_Witness ==
    /\ pc = "exit_0"
    /\ Len(seen) = 2
    /\ Aborted
    /\ Len(AddedNames) = 1

\* C6: with --vocab-only no shard is loaded, addTensor and writeTensors are never
\* called, and a run that ends has called writeHeader, writeMetadata and close, in
\* that order, right after the special vocabulary.
C6_VocabOnly ==
    args.vocab_only =>
        /\ loads = <<>> /\ loading = <<>> /\ model_part = <<>>
        /\ seen = <<>>
        /\ ~Called("add_tensor")
        /\ ~Called("write_tensors_to_file")
        /\ pc # "torch_load"
        /\ pc = "done" =>
            /\ Len(Calls) >= 4
            /\ SubSeq(Calls, Len(Calls) - 3, Len(Calls)) =
                   << "special_vocab.add_to_gguf", "write_header_to_file",
                      "write_kv_data_to_file", "close" >>

\* a vocab-only run on a checkpoint of two shards has ended
C6_Witness ==
    /\ args.vocab_only
    /\ pc = "done"
    /\ num_parts = 2

\* C7: when config.json declares another architecture the run aborts before the
\* writer is constructed: no call is ever made on the sink.
C7_UnsupportedArchitecture ==
    (hparams.architectures # <<>> /\ hparams.architectures[1] # "GPTNeoXForCausalLM") =>
        /\ gguf_writer = <<>>
        /\ pc = "exit_0"

\* the run has read a config.json that declares a Llama model
C7_Witness ==
    /\ hparams.architectures = <<"LlamaForCausalLM">>
    /\ pc = "exit_0"

\* the shards in memory: the one bound to model_part and the one torch.load reads
Held == {loading[i] : i \in 1 .. Len(loading)} \cup {model_part[i] : i \in 1 .. Len(model_part)}

\* the loads of a run on n shards that ended: parts 1..n, or the monolithic file
LoadsOf(n) ==
    IF n = 0 THEN << <<"pytorch_model.bin">> >> ELSE [i \in 1 .. n |-> <<"pytorch_model", i, n>>]

LoadsInOrder ==
    /\ \A i \in 1 .. Len(loads) : loads[i] = LoadsOf(num_parts)[i]
    /\ (pc = "done" /\ ~args.vocab_only) => loads = LoadsOf(num_parts)

\* C10: the n shards are loaded once each in ascending order (the monolithic file
\* when n = 0), and each is released before the next load begins, so that never
\* more than one shard is held in memory.
C10_OneShardAtATime ==
    /\ LoadsInOrder
    /\ Cardinality(Held) <= 1

====
